---- MODULE Spec2Model ----
(***************************************************************************)
(* Model of monitor.py: a gatt.DeviceManager / gatt.Device pair that turns *)
(* Turn Touch remote notifications into log lines and MQTT publishes.      *)
(* The BLE transport, the scheduler and the MQTT client are the            *)
(* environment: they deliver callbacks and receive the calls recorded in   *)
(* `out`.                                                                  *)
(***************************************************************************)
EXTENDS Integers, Sequences, FiniteSets, TLC

\* ---------------------------------------------------------------- bounds
MaxJobs == 2
MaxHistory == 4

\* ------------------------------------------------------------- constants
\* Python's None; also stands for an attribute that was never assigned.
None == <<>>

\* A UUID string is kept as <<first 8 characters, remainder>> so that
\* str.startswith on an 8-character prefix and == are different tests.
BUTTON_STATUS_SERVICE_UUID == <<"99c31523", "-dc4f-41b1-bb04-4e4deb81fadd">>
BUTTON_STATUS_CHARACTERISTIC_UUID == <<"99c31525", "-dc4f-41b1-bb04-4e4deb81fadd">>
SHORT_SERVICE_UUID == <<"1523", "">>
BATTERY_SERVICE_PREFIX == "0000180f"
BATTERY_CHARACTERISTIC_PREFIX == "00002a19"
DIRECTIONS == (0 :> "north") @@ (1 :> "east") @@ (2 :> "west") @@ (3 :> "south")
DirectionNames == {DIRECTIONS[b] : b \in DOMAIN DIRECTIONS}

\* The list handed to manager.start_discovery.
ScanFilter == {BUTTON_STATUS_SERVICE_UUID, SHORT_SERVICE_UUID}

StartsWith(uuid, prefix) == uuid[1] = prefix

\* ------------------------------------------------------------ environment
Addresses == {"a1", "a2"}

BaseTail == "-0000-1000-8000-00805f9b34fb"
OtherCharacteristicUuid == <<"99c31524", "-dc4f-41b1-bb04-4e4deb81fadd">>
HeartRateServiceUuid == <<"0000180d", BaseTail>>
HeartRateCharacteristicUuid == <<"00002a37", BaseTail>>

ButtonService == [uuid |-> BUTTON_STATUS_SERVICE_UUID,
                  characteristics |-> <<BUTTON_STATUS_CHARACTERISTIC_UUID>>]
ButtonServiceExtra == [uuid |-> BUTTON_STATUS_SERVICE_UUID,
                       characteristics |-> <<OtherCharacteristicUuid, BUTTON_STATUS_CHARACTERISTIC_UUID>>]
ButtonServiceNoNotify == [uuid |-> BUTTON_STATUS_SERVICE_UUID,
                          characteristics |-> <<OtherCharacteristicUuid>>]
BatteryService == [uuid |-> <<BATTERY_SERVICE_PREFIX, BaseTail>>,
                   characteristics |-> << <<BATTERY_CHARACTERISTIC_PREFIX, BaseTail>> >>]
BatteryServiceVendor == [uuid |-> <<BATTERY_SERVICE_PREFIX, "-vendor">>,
                         characteristics |-> << <<BATTERY_CHARACTERISTIC_PREFIX, "-vendor">> >>]
BatteryServiceNoLevel == [uuid |-> <<BATTERY_SERVICE_PREFIX, BaseTail>>,
                          characteristics |-> << <<"00002a1a", BaseTail>> >>]
HeartRateService == [uuid |-> HeartRateServiceUuid,
                     characteristics |-> <<HeartRateCharacteristicUuid>>]

\* The peripherals the radio can see: what each advertises and the GATT
\* services it exposes once connected.
Remote == [advertised |-> {BUTTON_STATUS_SERVICE_UUID},
           services |-> <<ButtonService, BatteryService>>]
RemoteVendorBattery == [advertised |-> {SHORT_SERVICE_UUID},
                        services |-> <<BatteryServiceVendor, ButtonServiceExtra>>]
RemoteNoBattery == [advertised |-> {BUTTON_STATUS_SERVICE_UUID},
                    services |-> <<ButtonService>>]
RemoteNoBatteryLevel == [advertised |-> {BUTTON_STATUS_SERVICE_UUID},
                         services |-> <<ButtonService, BatteryServiceNoLevel>>]
RemoteNoNotify == [advertised |-> {BUTTON_STATUS_SERVICE_UUID},
                   services |-> <<ButtonServiceNoNotify, BatteryService>>]
HeartRateStrap == [advertised |-> {HeartRateServiceUuid},
                   services |-> <<HeartRateService, BatteryService>>]
Peripherals == {Remote, RemoteVendorBattery, RemoteNoBattery, RemoteNoBatteryLevel,
                RemoteNoNotify, HeartRateStrap}

\* A characteristic object is named by its position: <<service, index>>.
CharacteristicsOf(p) ==
    {<<i, j>> : i \in 1..Len(p.services), j \in 1..2} \cap
    UNION {{<<i, j>> : j \in 1..Len(p.services[i].characteristics)} : i \in 1..Len(p.services)}
CharacteristicUuid(p, c) == p.services[c[1]].characteristics[c[2]]

VARIABLES
    peripheral,                      \* address -> the peripheral behind it
    devices,                         \* addresses the manager holds a TurnTouchDevice for
    link,                            \* address -> connection state kept by the transport
    pressed,                         \* address -> TurnTouchDevice.pressed
    button_status_characteristic,    \* address -> handle or None
    battery_status_characteristic,   \* address -> handle or None
    jobs,                            \* address -> the scheduler's interval jobs (the handle each reads)
    retained,                        \* topics published with retain=True so far
    out,                             \* calls, log lines and publishes of the last callback
    last,                            \* the last callback: its arguments and pre-state
    history                          \* value updates and their output since start (trace runs only)

vars == <<peripheral, devices, link, pressed, button_status_characteristic,
          battery_status_characteristic, jobs, retained, out, last, history>>

\* ------------------------------------------------------- pure functions
RECURSIVE FromBytesLittle(_)
FromBytesLittle(value) ==
    IF value = <<>> THEN 0 ELSE Head(value) + 256 * FromBytesLittle(Tail(value))

RECURSIVE FromBytesBig(_)
FromBytesBig(value) ==
    IF value = <<>> THEN 0
    ELSE 256 * FromBytesBig(SubSeq(value, 1, Len(value) - 1)) + value[Len(value)]

BitSet(x, bit) == (x \div (2 ^ bit)) % 2 = 1

\* buttons = ~int.from_bytes(value, "little") & 0xF : bit k of the result is
\* set iff bit k of the (unbounded, non-negative) integer is clear, k < 4.
BitValue(x, bit) == IF BitSet(x, bit) THEN 0 ELSE 2 ^ bit
\* Buttons without the inversion: a set bit read as pressed.
ButtonsNotInverted(value) == FromBytesLittle(value) % 16

Buttons(value) ==
    LET x == FromBytesLittle(value)
    IN  BitValue(x, 0) + BitValue(x, 1) + BitValue(x, 2) + BitValue(x, 3)

\* NewPressed with every direction testing bit 0.
NewPressedSameBit(value) ==
    {DIRECTIONS[bit] : bit \in {b \in DOMAIN DIRECTIONS : BitSet(Buttons(value), 0)}}

NewPressed(value) ==
    {DIRECTIONS[bit] : bit \in {b \in DOMAIN DIRECTIONS : BitSet(Buttons(value), b)}}

\* BatteryPercentage scaled by 256 instead of 255.
BatteryPercentage256(value) == (FromBytesBig(value) * 100) \div 256

\* int(int.from_bytes(value, "big") * 100 / 255): the float quotient of two
\* small non-negative integers truncates to the integer quotient.
BatteryPercentage(value) == (FromBytesBig(value) * 100) \div 255

\* Iterating a Python set of strings visits it in an order the language does
\* not fix (string hashes are salted per process): every order is possible.
Orders(S) ==
    {o \in [1..Cardinality(S) -> S] : \A i, j \in 1..Cardinality(S) : o[i] = o[j] => i = j}

RECURSIVE Flatten(_)
Flatten(ss) == IF ss = <<>> THEN <<>> ELSE Head(ss) \o Flatten(Tail(ss))

\* First position in seq whose element satisfies Test, 0 when there is none
\* (next(generator) / next(generator, None)).
FirstIndex(seq, Test(_)) ==
    IF \E i \in 1..Len(seq) : Test(seq[i])
    THEN CHOOSE i \in 1..Len(seq) : Test(seq[i]) /\ \A k \in 1..(i - 1) : ~Test(seq[k])
    ELSE 0

\* ---------------------------------------------------------------- output
ConfigTopic(a, d) == <<"homeassistant/device_automation", a, d, "config">>
PressTopic(a, d) == <<"tt", a, d>>
ConfigPayload(a, d) ==
    [automation_type |-> "trigger", topic |-> PressTopic(a, d), type |-> "pressed",
     subtype |-> d,
     device |-> [identifiers |-> a, manufacturer |-> "Turn Touch", model |-> "Remote"]]
Publish(topic, payload, retain) == <<"publish", topic, payload, retain>>


\* What a callback found when it started, kept so that properties can relate
\* a callback's output to the state it ran in.
Pre(a) ==
    [known |-> a \in devices, link |-> link[a], pressed |-> pressed[a],
     button |-> button_status_characteristic[a],
     battery |-> battery_status_characteristic[a], jobs |-> jobs[a]]
Call(op, a, c, value) ==
    [op |-> op, address |-> a, characteristic |-> c, value |-> value, pre |-> Pre(a)]

\* ------------------------------------------------------------------ Init
\* TurnTouchDevice's class attributes are what a new instance reads until it
\* assigns its own: battery_status_characteristic = None, pressed = set().
\* button_status_characteristic has no class attribute: unset, shown as None.
InitWith(as, ps) ==
    /\ peripheral \in {f \in [Addresses -> ps \cup {Remote}] :
                         \A a \in Addresses \ as : f[a] = Remote}
    /\ devices = {}
    /\ link = [a \in Addresses |-> "idle"]
    /\ pressed = [a \in Addresses |-> {}]
    /\ button_status_characteristic = [a \in Addresses |-> None]
    /\ battery_status_characteristic = [a \in Addresses |-> None]
    /\ jobs = [a \in Addresses |-> <<>>]
    /\ retained = {}
    /\ out = <<>>
    /\ last = [op |-> "start", address |-> "", characteristic |-> None, value |-> <<>>,
               pre |-> [known |-> FALSE, link |-> "idle", pressed |-> {}, button |-> None,
                        battery |-> None, jobs |-> <<>>]]
    /\ history = <<>>


\* --------------------------------------------------------------- actions
\* TurnTouchDeviceManager.make_device: run by the transport for an address it
\* holds no device object for. The new object carries the class attributes.
MakeDevice(a) ==
    /\ devices' = devices \cup {a}

\* TurnTouchDeviceManager.device_discovered. connect() is a request to the
\* transport, which starts connecting unless the link is already up or
\* coming up.
DeviceDiscovered(a) ==
    /\ MakeDevice(a)
    /\ out' = << <<"log.discovered", a>>, <<"connect", a>> >>
    /\ link' = [link EXCEPT ![a] = IF @ \in {"idle", "disconnected"} THEN "connecting" ELSE @]
    /\ last' = Call("device_discovered", a, None, <<>>)
    /\ UNCHANGED <<peripheral, retained, pressed, button_status_characteristic,
                   battery_status_characteristic, jobs>>

\* ConnectSucceeded publishing north's configuration on every turn of the loop.
ConnectSucceededNorthOnly(a) ==
    /\ a \in devices
    /\ link[a] = "connecting"
    /\ link' = [link EXCEPT ![a] = "connected"]
    /\ out' = << <<"log.connected", a>> >> \o
              [i \in 1..4 |-> Publish(ConfigTopic(a, "north"), ConfigPayload(a, "north"), TRUE)]
    /\ retained' = retained \cup {ConfigTopic(a, "north")}
    /\ last' = Call("connect_succeeded", a, None, <<>>)
    /\ UNCHANGED <<peripheral, devices, pressed, button_status_characteristic,
                   battery_status_characteristic, jobs>>

\* TurnTouchDevice.connect_succeeded: one retained trigger configuration per
\* direction, in the dict's insertion order.
ConnectSucceeded(a) ==
    /\ a \in devices
    /\ link[a] = "connecting"
    /\ link' = [link EXCEPT ![a] = "connected"]
    /\ out' = << <<"log.connected", a>> >> \o
              [i \in 1..4 |-> Publish(ConfigTopic(a, DIRECTIONS[i - 1]),
                                      ConfigPayload(a, DIRECTIONS[i - 1]), TRUE)]
    /\ retained' = retained \cup {ConfigTopic(a, d) : d \in DirectionNames}
    /\ last' = Call("connect_succeeded", a, None, <<>>)
    /\ UNCHANGED <<peripheral, devices, pressed, button_status_characteristic,
                   battery_status_characteristic, jobs>>

\* TurnTouchDevice.connect_failed
ConnectFailed(a) ==
    /\ a \in devices
    /\ link[a] = "connecting"
    /\ link' = [link EXCEPT ![a] = "disconnected"]
    /\ out' = << <<"log.connect_failed", a>> >>
    /\ last' = Call("connect_failed", a, None, <<>>)
    /\ UNCHANGED <<peripheral, retained, devices, pressed, button_status_characteristic,
                   battery_status_characteristic, jobs>>

\* The transport's disconnect callback. TurnTouchDevice does not override
\* disconnect_succeeded: nothing of the device object changes, nothing is
\* logged or published, and the scheduler is not told.
DisconnectSucceeded(a) ==
    /\ a \in devices
    /\ link[a] \in {"connected", "resolved"}
    /\ link' = [link EXCEPT ![a] = "disconnected"]
    /\ out' = <<>>
    /\ last' = Call("disconnect_succeeded", a, None, <<>>)
    /\ UNCHANGED <<peripheral, retained, devices, pressed, button_status_characteristic,
                   battery_status_characteristic, jobs>>

\* services_resolved's lookups. next() without a default raises StopIteration
\* when nothing matches (shown as None here, raised by ServicesResolved);
\* next(..., None) gives None.
IsButtonService(s) == s.uuid = BUTTON_STATUS_SERVICE_UUID
IsButtonCharacteristic(u) == u = BUTTON_STATUS_CHARACTERISTIC_UUID
IsBatteryService(s) == StartsWith(s.uuid, BATTERY_SERVICE_PREFIX)
IsBatteryCharacteristic(u) == StartsWith(u, BATTERY_CHARACTERISTIC_PREFIX)

\* FindButtonCharacteristic taking the button service's first characteristic
\* without testing its UUID.
FindButtonCharacteristicUnchecked(services) ==
    LET bs == FirstIndex(services, IsButtonService)
    IN  IF bs = 0 \/ services[bs].characteristics = <<>> THEN None ELSE <<bs, 1>>

FindButtonCharacteristic(services) ==
    LET bs == FirstIndex(services, IsButtonService)
        bc == IF bs = 0 THEN 0
              ELSE FirstIndex(services[bs].characteristics, IsButtonCharacteristic)
    IN  IF bs = 0 \/ bc = 0 THEN None ELSE <<bs, bc>>

FindBatteryService(services) == FirstIndex(services, IsBatteryService)

\* FindBatteryCharacteristic taking the battery service's first characteristic
\* without testing its UUID.
FindBatteryCharacteristicUnchecked(services) ==
    LET ts == FindBatteryService(services)
    IN  IF ts = 0 \/ services[ts].characteristics = <<>> THEN None ELSE <<ts, 1>>

FindBatteryCharacteristic(services) ==
    LET ts == FindBatteryService(services)
        tc == IF ts = 0 THEN 0
              ELSE FirstIndex(services[ts].characteristics, IsBatteryCharacteristic)
    IN  IF ts = 0 \/ tc = 0 THEN None ELSE <<ts, tc>>

\* TurnTouchDevice.services_resolved. A StopIteration leaves the callback
\* before anything is assigned, and the transport's loop carries on.
\* self.sched is the scheduler the environment provides.
ServicesResolved(a) ==
    LET services == peripheral[a].services
        button == FindButtonCharacteristic(services)
        battery == FindBatteryCharacteristic(services)
    IN  /\ a \in devices
        /\ link[a] = "connected"
        /\ Len(jobs[a]) < MaxJobs
        /\ link' = [link EXCEPT ![a] = "resolved"]
        /\ last' = Call("services_resolved", a, None, <<>>)
        /\ IF button = None
           THEN /\ out' = << <<"raise", a, "StopIteration">> >>
                /\ UNCHANGED <<button_status_characteristic,
                               battery_status_characteristic, jobs>>
           ELSE /\ button_status_characteristic' =
                       [button_status_characteristic EXCEPT ![a] = button]
                /\ IF FindBatteryService(services) = 0
                   THEN /\ out' = << <<"enable_notifications", a, button>> >>
                        /\ UNCHANGED <<battery_status_characteristic, jobs>>
                   ELSE /\ battery_status_characteristic' =
                               [battery_status_characteristic EXCEPT ![a] = battery]
                        /\ IF battery = None
                           THEN /\ out' = << <<"enable_notifications", a, button>> >>
                                /\ UNCHANGED jobs
                           ELSE /\ out' = << <<"enable_notifications", a, button>>,
                                             <<"read_value", a, battery>>,
                                             <<"add_job", a, battery>> >>
                                /\ jobs' = [jobs EXCEPT ![a] = Append(@, battery)]
        /\ UNCHANGED <<peripheral, retained, devices, pressed>>

\* The scheduler runs one of the interval jobs added by services_resolved:
\* read_value on the characteristic the job was created with. Nothing in the
\* program removes a job.
BatteryPollFires(a, k) ==
    /\ k \in 1..Len(jobs[a])
    /\ out' = << <<"read_value", a, jobs[a][k]>> >>
    /\ last' = Call("interval_job", a, jobs[a][k], <<>>)
    /\ UNCHANGED <<peripheral, retained, devices, link, pressed, button_status_characteristic,
                   battery_status_characteristic, jobs>>

\* TurnTouchDevice.characteristic_value_updated, for a notification or a read
\* result the transport delivers on characteristic c of a resolved device.
PressedOutput(a, direction) ==
    << <<"log.pressed", a, direction>>, Publish(PressTopic(a, direction), "", FALSE) >>
ReleasedOutput(a, direction) == << <<"log.released", a, direction>> >>

\* CharacteristicValueUpdated without the return that ends the battery branch:
\* the battery payload is then decoded as buttons as well.
CharacteristicValueUpdatedNoReturn(a, c, value) ==
    /\ a \in devices
    /\ link[a] = "resolved"
    /\ c \in CharacteristicsOf(peripheral[a])
    /\ last' = Call("characteristic_value_updated", a, c, value)
    /\ LET new_pressed == NewPressed(value)
           battery == IF c = battery_status_characteristic[a]
                      THEN << <<"log.battery", a, BatteryPercentage(value)>> >>
                      ELSE <<>>
       IN  /\ \E po \in Orders(new_pressed \ pressed[a]),
                 ro \in Orders(pressed[a] \ new_pressed) :
                  out' = battery \o
                         Flatten([i \in DOMAIN po |-> PressedOutput(a, po[i])]) \o
                         Flatten([i \in DOMAIN ro |-> ReleasedOutput(a, ro[i])])
           /\ pressed' = [pressed EXCEPT ![a] = new_pressed]
    /\ UNCHANGED <<peripheral, retained, devices, link, button_status_characteristic,
                   battery_status_characteristic, jobs>>

\* CharacteristicValueUpdated updating the class-level set in place, which
\* every device object reads.
CharacteristicValueUpdatedShared(a, c, value) ==
    /\ a \in devices
    /\ link[a] = "resolved"
    /\ c \in CharacteristicsOf(peripheral[a])
    /\ last' = Call("characteristic_value_updated", a, c, value)
    /\ IF c = battery_status_characteristic[a]
       THEN /\ out' = << <<"log.battery", a, BatteryPercentage(value)>> >>
            /\ UNCHANGED pressed
       ELSE LET new_pressed == NewPressed(value)
            IN  /\ \E po \in Orders(new_pressed \ pressed[a]),
                      ro \in Orders(pressed[a] \ new_pressed) :
                       out' = Flatten([i \in DOMAIN po |-> PressedOutput(a, po[i])]) \o
                              Flatten([i \in DOMAIN ro |-> ReleasedOutput(a, ro[i])])
                /\ pressed' = [x \in Addresses |-> new_pressed]
    /\ UNCHANGED <<peripheral, retained, devices, link, button_status_characteristic,
                   battery_status_characteristic, jobs>>

\* CharacteristicValueUpdated without the final self.pressed = new_pressed.
CharacteristicValueUpdatedStale(a, c, value) ==
    /\ a \in devices
    /\ link[a] = "resolved"
    /\ c \in CharacteristicsOf(peripheral[a])
    /\ last' = Call("characteristic_value_updated", a, c, value)
    /\ IF c = battery_status_characteristic[a]
       THEN out' = << <<"log.battery", a, BatteryPercentage(value)>> >>
       ELSE LET new_pressed == NewPressed(value)
            IN  \E po \in Orders(new_pressed \ pressed[a]),
                   ro \in Orders(pressed[a] \ new_pressed) :
                    out' = Flatten([i \in DOMAIN po |-> PressedOutput(a, po[i])]) \o
                           Flatten([i \in DOMAIN ro |-> ReleasedOutput(a, ro[i])])
    /\ UNCHANGED <<peripheral, retained, devices, link, pressed, button_status_characteristic,
                   battery_status_characteristic, jobs>>

CharacteristicValueUpdated(a, c, value) ==
    /\ a \in devices
    /\ link[a] = "resolved"
    /\ c \in CharacteristicsOf(peripheral[a])
    /\ last' = Call("characteristic_value_updated", a, c, value)
    /\ IF c = battery_status_characteristic[a]
       THEN /\ out' = << <<"log.battery", a, BatteryPercentage(value)>> >>
            /\ UNCHANGED pressed
       ELSE LET new_pressed == NewPressed(value)
            IN  /\ \E po \in Orders(new_pressed \ pressed[a]),
                      ro \in Orders(pressed[a] \ new_pressed) :
                       out' = Flatten([i \in DOMAIN po |-> PressedOutput(a, po[i])]) \o
                              Flatten([i \in DOMAIN ro |-> ReleasedOutput(a, ro[i])])
                /\ pressed' = [pressed EXCEPT ![a] = new_pressed]
    /\ UNCHANGED <<peripheral, retained, devices, link, button_status_characteristic,
                   battery_status_characteristic, jobs>>

\* ------------------------------------------------------- specifications
\* history is written in trace runs only, and bounds them.
Record(trace) ==
    IF trace /\ last'.op = "characteristic_value_updated"
    THEN /\ Len(history) < MaxHistory
         /\ history' = Append(history, [characteristic |-> last'.characteristic,
                                     value |-> last'.value, out |-> out'])
    ELSE UNCHANGED history

\* The callbacks the environment can deliver for the addresses in as; a value
\* update carries a payload of batteryValues on the battery characteristic
\* and of buttonValues on any other.
Step(as, buttonValues, batteryValues, trace) ==
    \/ \E a \in as : DeviceDiscovered(a) /\ Record(trace)
    \/ \E a \in as : ConnectSucceeded(a) /\ Record(trace)
    \/ \E a \in as : ConnectFailed(a) /\ Record(trace)
    \/ \E a \in as : ServicesResolved(a) /\ Record(trace)
    \/ \E a \in as : DisconnectSucceeded(a) /\ Record(trace)
    \/ \E a \in as, k \in 1..MaxJobs : BatteryPollFires(a, k) /\ Record(trace)
    \/ \E a \in as, c \in (1..2) \X (1..2) :
          \E value \in IF c = battery_status_characteristic[a]
                       THEN batteryValues ELSE buttonValues :
              CharacteristicValueUpdated(a, c, value) /\ Record(trace)

Focus == {"a1"}

\* Spec: one peripheral of any kind through its whole life, with the button
\* states of a north/east press sequence, an empty payload, a legacy two-byte
\* payload and a few battery readings.
Payloads == {<<>>, <<255>>, <<254>>, <<252>>, <<253>>, <<128>>, <<254, 1>>}
Init == InitWith(Focus, Peripherals)
Next == Step(Focus, Payloads, Payloads, FALSE)
Spec == Init /\ [][Next]_vars

\* SpecButtons: a remote with every low nibble under two upper nibbles, the
\* empty payload and two-byte legacy payloads.
ButtonPayloads ==
    {<<>>} \cup {<<16 * hi + lo>> : hi \in {0, 15}, lo \in 0..15}
           \cup {<<lo, hold>> : lo \in {14, 254}, hold \in {0, 1}}
InitButtons == InitWith(Focus, {Remote})
NextButtons == Step(Focus, ButtonPayloads, {<<255>>}, FALSE)
SpecButtons == InitButtons /\ [][NextButtons]_vars

\* SpecBattery: a remote with every one-byte battery reading, the empty one
\* and some longer ones.
BatteryPayloads ==
    {<<>>} \cup {<<r>> : r \in 0..255} \cup {<<1, 0>>, <<0, 255>>, <<255, 255>>}
NextBattery == Step(Focus, {<<255>>, <<254>>}, BatteryPayloads, FALSE)
SpecBattery == InitButtons /\ [][NextBattery]_vars

\* SpecTrace: a remote whose value updates are recorded, up to MaxHistory.
TracePayloads == {<<255>>, <<254>>, <<252>>, <<253>>}
NextTrace == Step(Focus, TracePayloads, {<<128>>}, TRUE)
SpecTrace == InitButtons /\ [][NextTrace]_vars

\* ------------------------------------------------------------ properties
Count(seq, e) == Cardinality({i \in DOMAIN seq : seq[i] = e})
Hits(cond) == IF cond THEN 1 ELSE 0

\* The directions a 4-bit mask names: north = bit 0 ... south = bit 3.
DirectionsOfMask(m) ==
    (IF m % 2 = 1 THEN {"north"} ELSE {}) \cup
    (IF (m \div 2) % 2 = 1 THEN {"east"} ELSE {}) \cup
    (IF (m \div 4) % 2 = 1 THEN {"west"} ELSE {}) \cup
    (IF (m \div 8) % 2 = 1 THEN {"south"} ELSE {})

\* The directions a non-empty payload reports pressed: active-low, low nibble
\* of the first byte.
PressedInPayload(value) == DirectionsOfMask(15 - (value[1] % 16))

PressLog(a, d) == <<"log.pressed", a, d>>
PressPublish(a, d) == <<"publish", <<"tt", a, d>>, "", FALSE>>
ReleaseLog(a, d) == <<"log.released", a, d>>

\* o holds one Press (log line and publish) per direction of now \ prev, one
\* Release per direction of prev \ now, and nothing else.
ExactEdges(a, o, prev, now) ==
    /\ \A d \in DirectionNames :
          /\ Count(o, PressLog(a, d)) = Hits(d \in now \ prev)
          /\ Count(o, PressPublish(a, d)) = Hits(d \in now \ prev)
          /\ Count(o, ReleaseLog(a, d)) = Hits(d \in prev \ now)
    /\ Len(o) = 2 * Cardinality(now \ prev) + Cardinality(prev \ now)

\* The last callback was a value update on the device's button characteristic.
ButtonUpdate(a) ==
    /\ last.op = "characteristic_value_updated"
    /\ last.address = a
    /\ last.characteristic = last.pre.button

IsButtonEntry(e) == e.characteristic = button_status_characteristic["a1"]
ButtonHistory == SelectSeq(history, IsButtonEntry)
NorthEastSequence == << <<254>>, <<252>>, <<253>>, <<255>> >>

\* C1: over any recorded sequence of button notifications to one device,
\* starting with no button pressed, each notification emits exactly one Press
\* per direction pressed now and not before, exactly one Release per direction
\* pressed before and not now, and nothing else; the sequence north,
\* north+east, east, none emits Press(north), Press(east), Release(north),
\* Release(east) and no more.
C1_EdgeEvents ==
    LET h == ButtonHistory
    IN  /\ \A i \in 1..Len(h) :
              ExactEdges("a1", h[i].out,
                         IF i = 1 THEN {} ELSE PressedInPayload(h[i - 1].value),
                         PressedInPayload(h[i].value))
        /\ [i \in 1..Len(h) |-> h[i].value] = NorthEastSequence
              => Flatten([i \in 1..Len(h) |-> h[i].out]) =
                     << PressLog("a1", "north"), PressPublish("a1", "north"),
                        PressLog("a1", "east"), PressPublish("a1", "east"),
                        ReleaseLog("a1", "north"), ReleaseLog("a1", "east") >>

C1_Witness ==
    /\ Len(history) = 4
    /\ [i \in 1..Len(ButtonHistory) |-> ButtonHistory[i].value] = NorthEastSequence

\* C2: a button notification that repeats the payload of the button
\* notification delivered just before it emits nothing and leaves the
\* pressed set as it was.
C2_Idempotent ==
    [][\A a \in Addresses :
          (/\ ButtonUpdate(a)
           /\ ButtonUpdate(a)'
           /\ last'.value = last.value)
          => /\ out' = <<>>
             /\ pressed'[a] = pressed[a]]_vars

C2_Witness ==
    /\ ButtonUpdate("a1")
    /\ last.value = <<250>>
    /\ last.pre.pressed = {"north", "west"}
    /\ pressed["a1"] = {"north", "west"}
    /\ out = <<>>

\* C3: after a button notification with a non-empty payload the pressed set
\* is the set of directions whose bit is clear in the low nibble of the first
\* byte (north = bit 0, east = bit 1, west = bit 2, south = bit 3), whatever
\* the upper nibble and the further bytes are; from an empty previous set
\* exactly these directions are reported pressed.
C3_ActiveLowDecoding ==
    \A a \in Addresses :
        (ButtonUpdate(a) /\ Len(last.value) >= 1)
        => /\ pressed[a] = DirectionsOfMask(15 - (last.value[1] % 16))
           /\ last.pre.pressed = {}
                 => {d \in DirectionNames : Count(out, PressLog(a, d)) = 1}
                        = DirectionsOfMask(15 - (last.value[1] % 16))

C3_Witness ==
    /\ ButtonUpdate("a1")
    /\ last.value = <<254, 1>>
    /\ last.pre.pressed = {}
    /\ pressed["a1"] = {"north"}

\* C4: an empty payload on the button characteristic emits no Press and no
\* Release, publishes nothing and leaves the pressed set as it was.
C4_EmptyPayloadRejected ==
    \A a \in Addresses :
        (ButtonUpdate(a) /\ last.value = <<>>)
        => /\ out = <<>>
           /\ pressed[a] = last.pre.pressed

\* C5: when a resolved device with a battery poll scheduled disconnects, the
\* poll is cancelled and exactly one ConnectionStateChanged(disconnected) is
\* emitted; an interval job never fires for a device that is not resolved.
C5_PollCancelledOnDisconnect ==
    \A a \in Addresses :
        /\ (/\ last.op = "disconnect_succeeded"
            /\ last.address = a
            /\ last.pre.link = "resolved"
            /\ last.pre.jobs # <<>>)
           => /\ jobs[a] = <<>>
              /\ Count(out, <<"ConnectionStateChanged", a, "disconnected">>) = 1
        /\ (last.op = "interval_job" /\ last.address = a) => last.pre.link = "resolved"

\* C6: a discovery of an address the manager already holds a device for
\* issues no connect request and leaves the device as it was.
C6_RediscoveryNoOp ==
    \A a \in Addresses :
        (last.op = "device_discovered" /\ last.address = a /\ last.pre.known)
        => /\ Count(out, <<"connect", a>>) = 0
           /\ link[a] = last.pre.link
           /\ pressed[a] = last.pre.pressed
           /\ jobs[a] = last.pre.jobs

\* C7: a peripheral whose advertised service UUIDs do not meet the scan
\* filter never gets a device object and is never asked to connect.
C7_FilteredOutNeverConnected ==
    \A a \in Addresses :
        peripheral[a].advertised \cap ScanFilter = {}
        => /\ a \notin devices
           /\ link[a] = "idle"

\* C8: a remote without the battery service, or without the battery-level
\* characteristic in it, resolves with notifications enabled on the button
\* characteristic and nothing else requested, keeps a None battery handle,
\* never has a battery read or an interval job, and its button notifications
\* emit exactly the edges between the previous and the new pressed set.
C8_NoBatteryStillReady ==
    \A a \in Addresses :
        peripheral[a] \in {RemoteNoBattery, RemoteNoBatteryLevel}
        => /\ battery_status_characteristic[a] = None
           /\ jobs[a] = <<>>
           /\ (last.op = "services_resolved" /\ last.address = a)
                 => /\ link[a] = "resolved"
                    /\ button_status_characteristic[a] = <<1, 1>>
                    /\ out = << <<"enable_notifications", a, <<1, 1>>>> >>
           /\ last.address = a
                 => /\ last.op # "interval_job"
                    /\ \A i \in DOMAIN out : out[i][1] \notin {"read_value", "add_job"}
           /\ (ButtonUpdate(a) /\ Len(last.value) >= 1)
                 => ExactEdges(a, out, last.pre.pressed, PressedInPayload(last.value))

C8_Witness ==
    /\ peripheral["a1"] = RemoteNoBatteryLevel
    /\ link["a1"] = "resolved"
    /\ ButtonUpdate("a1")
    /\ last.value = <<252>>
    /\ last.pre.pressed = {"north"}
    /\ Len(out) = 2

\* The last callback was a value update on the device's battery
\* characteristic.
BatteryUpdate(a) ==
    /\ last.op = "characteristic_value_updated"
    /\ last.address = a
    /\ last.characteristic = last.pre.battery

\* C9: a one-byte battery payload r is reported as the integer part of
\* r * 100 / 255: 100 for 255, 0 for 0, 50 for 128, and never less than the
\* report for a smaller byte.
C9_BatteryScaling ==
    \A a \in Addresses :
        (BatteryUpdate(a) /\ Len(last.value) = 1)
        => LET r == last.value[1]
           IN  \E pct \in 0..100 :
                  /\ out = << <<"log.battery", a, pct>> >>
                  /\ pct * 255 <= r * 100
                  /\ r * 100 < (pct + 1) * 255
                  /\ r = 255 => pct = 100
                  /\ r = 0 => pct = 0
                  /\ r = 128 => pct = 50
                  /\ \A smaller \in 0..r : BatteryPercentage(<<smaller>>) <= pct

C9_Witness ==
    /\ BatteryUpdate("a1")
    /\ last.value = <<128>>
    /\ out = << <<"log.battery", "a1", 50>> >>

\* C10: a device's button and battery handles are set only while its services
\* are resolved: never before, and not after a disconnect.
C10_HandlesOnlyWhileResolved ==
    \A a \in Addresses :
        (button_status_characteristic[a] # None \/ battery_status_characteristic[a] # None)
        => link[a] = "resolved"

\* C11: a value update on a characteristic that is neither the device's
\* button characteristic nor its battery characteristic emits nothing and
\* leaves the pressed set as it was, also when the battery handle is None.
C11_OtherCharacteristicIgnored ==
    \A a \in Addresses :
        (/\ last.op = "characteristic_value_updated"
         /\ last.address = a
         /\ last.characteristic # last.pre.button
         /\ last.characteristic # last.pre.battery)
        => /\ out = <<>>
           /\ pressed[a] = last.pre.pressed

\* SpecPair: two devices side by side. The second is a remote; the first is a
\* remote, a remote without the notify characteristic, or a peripheral
\* without the button service. Payloads: north pressed, north and east
\* pressed, all released.
PairPayloads == {<<254>>, <<252>>, <<255>>}
InitPair == InitWith({"a1"}, {RemoteNoNotify, HeartRateStrap})
NextPair == Step(Addresses, PairPayloads, {<<128>>}, FALSE)
SpecPair == InitPair /\ [][NextPair]_vars

\* An entry of out that names device a.
Concerns(e, a) == IF e[1] = "publish" THEN e[2][2] = a ELSE e[2] = a
Requests == {"enable_notifications", "read_value", "add_job"}

\* C12: a device whose services lack the button service, or whose button
\* service lacks the notify characteristic, fails service resolution with an
\* exception and nothing else: its handles stay None, no notification is
\* enabled, no battery read is issued and no job is added for it, ever. The
\* remote beside it resolves in full and its button notifications emit
\* exactly their edges.
C12_FailureConfinedToSession ==
    \A a \in Addresses :
        peripheral[a] \in {RemoteNoNotify, HeartRateStrap}
        => /\ button_status_characteristic[a] = None
           /\ battery_status_characteristic[a] = None
           /\ jobs[a] = <<>>
           /\ \A i \in DOMAIN out : Concerns(out[i], a) => out[i][1] \notin Requests
           /\ (last.op = "services_resolved" /\ last.address = a)
                 => out = << <<"raise", a, "StopIteration">> >>
           /\ \A b \in Addresses \ {a} :
                 /\ (last.op = "services_resolved" /\ last.address = b)
                       => /\ [i \in DOMAIN out |-> out[i][1]] =
                                 <<"enable_notifications", "read_value", "add_job">>
                          /\ button_status_characteristic[b] # None
                 /\ (ButtonUpdate(b) /\ Len(last.value) >= 1)
                       => ExactEdges(b, out, last.pre.pressed, PressedInPayload(last.value))

C12_Witness ==
    /\ peripheral["a1"] = RemoteNoNotify
    /\ link["a1"] = "resolved"
    /\ button_status_characteristic["a1"] = None
    /\ ButtonUpdate("a2")
    /\ out = << PressLog("a2", "north"), PressPublish("a2", "north") >>

\* C13: a callback for one device leaves every other device's pressed set as
\* it was and emits nothing that names another device; a button notification
\* emits exactly the edges between the device's own previous pressed set and
\* the payload, whatever the other device has pressed.
C13_SessionsIndependent ==
    [][\A a \in Addresses :
          /\ last'.address # a
                => /\ pressed'[a] = pressed[a]
                   /\ \A i \in DOMAIN out' : ~Concerns(out'[i], a)
          /\ (ButtonUpdate(a)' /\ Len(last'.value) >= 1)
                => /\ ExactEdges(a, out', pressed[a], PressedInPayload(last'.value))
                   /\ pressed'[a] = PressedInPayload(last'.value)]_vars

C13_Witness ==
    /\ peripheral["a1"] = Remote
    /\ ButtonUpdate("a2")
    /\ pressed["a1"] = {"north"}
    /\ last.pre.pressed = {}
    /\ pressed["a2"] = {"north", "east"}
    /\ Len(out) = 4

\* C14: a device that is not resolved (never connected, or disconnected since)
\* has no direction stored as pressed, so that the first button notification
\* after a reconnect emits a Press for every direction it reports.
C14_PressedResetOnDisconnect ==
    \A a \in Addresses : link[a] # "resolved" => pressed[a] = {}

DirectionBit(d) == CHOOSE b \in DOMAIN DIRECTIONS : DIRECTIONS[b] = d

\* C15: the Press events of one button notification appear in the order
\* north, east, west, south, and so do its Release events.
C15_StableDirectionOrder ==
    \A a \in Addresses :
        ButtonUpdate(a)
        => \A i, j \in DOMAIN out :
              (/\ i < j
               /\ out[i][1] \in {"log.pressed", "log.released"}
               /\ out[j][1] = out[i][1])
              => DirectionBit(out[i][3]) < DirectionBit(out[j][3])

\* C16: a non-empty battery payload of any length is reported as a percentage
\* between 0 and 100.
C16_BatteryInRange ==
    \A a \in Addresses :
        (BatteryUpdate(a) /\ Len(last.value) >= 1)
        => /\ Len(out) = 1
           /\ out[1][1] = "log.battery"
           /\ out[1][3] \in 0..100

\* C17: a device never has more than one interval job in the scheduler.
C17_AtMostOnePollJob ==
    \A a \in Addresses : Len(jobs[a]) <= 1

\* Everything the recorded value updates emitted, in order.
HistoryOut == Flatten([i \in 1..Len(history) |-> history[i].out])
IsNorthEvent(e) == e = PressLog("a1", "north") \/ e = ReleaseLog("a1", "north")
IsEastEvent(e) == e = PressLog("a1", "east") \/ e = ReleaseLog("a1", "east")
IsWestEvent(e) == e = PressLog("a1", "west") \/ e = ReleaseLog("a1", "west")
IsSouthEvent(e) == e = PressLog("a1", "south") \/ e = ReleaseLog("a1", "south")
EventsOf(d) ==
    CASE d = "north" -> SelectSeq(HistoryOut, IsNorthEvent)
      [] d = "east" -> SelectSeq(HistoryOut, IsEastEvent)
      [] d = "west" -> SelectSeq(HistoryOut, IsWestEvent)
      [] d = "south" -> SelectSeq(HistoryOut, IsSouthEvent)

\* C18: over any recorded sequence of button and battery notifications, with
\* disconnects and reconnects between them, the Press and Release events of
\* one direction alternate and start with a Press; the direction is stored as
\* pressed exactly when its last event is a Press.
C18_PressReleaseAlternate ==
    \A d \in DirectionNames :
        LET ev == EventsOf(d)
        IN  /\ \A i \in DOMAIN ev :
                  ev[i] = IF i % 2 = 1 THEN PressLog("a1", d) ELSE ReleaseLog("a1", d)
            /\ d \in pressed["a1"] <=> Len(ev) % 2 = 1

C18_Witness ==
    /\ EventsOf("north") = << PressLog("a1", "north"), ReleaseLog("a1", "north"),
                              PressLog("a1", "north") >>
    /\ \E i \in DOMAIN history : history[i].out = << <<"log.battery", "a1", 50>> >>

\* C19: a value update on the device's battery characteristic logs the
\* battery level and nothing else: no Press, no Release, no publish, and the
\* pressed set stays as it was.
C19_BatteryUpdateOnlyReports ==
    \A a \in Addresses :
        BatteryUpdate(a)
        => /\ pressed[a] = last.pre.pressed
           /\ Len(out) = 1
           /\ out[1][1] = "log.battery"
           /\ out[1][2] = a

C19_Witness ==
    /\ BatteryUpdate("a1")
    /\ last.value = <<128>>
    /\ pressed["a1"] = {"north"}
    /\ out = << <<"log.battery", "a1", 50>> >>

Publishes(o) == {i \in DOMAIN o : o[i][1] = "publish"}
IsConfigFor(e, a, d) ==
    /\ e[1] = "publish"
    /\ e[2] = <<"homeassistant/device_automation", a, d, "config">>
    /\ e[3].automation_type = "trigger"
    /\ e[3].topic = <<"tt", a, d>>
    /\ e[3].subtype = d
    /\ e[4] = TRUE

\* C20: a press message on tt/<address>/<direction> is published only after
\* a retained trigger configuration for that address and direction was
\* published by connect_succeeded; each connect_succeeded publishes exactly
\* four such configurations, one per direction; a value update publishes one
\* message per Press and none for a Release.
C20_ConfigBeforePress ==
    \A a \in Addresses :
        /\ \A d \in DirectionNames :
              Count(out, PressPublish(a, d)) > 0
              => <<"homeassistant/device_automation", a, d, "config">> \in retained
        /\ (last.op = "connect_succeeded" /\ last.address = a)
              => /\ Cardinality(Publishes(out)) = 4
                 /\ \A d \in DirectionNames :
                       Cardinality({i \in DOMAIN out : IsConfigFor(out[i], a, d)}) = 1
        /\ (last.op = "characteristic_value_updated" /\ last.address = a)
              => /\ Cardinality(Publishes(out)) =
                        Cardinality({i \in DOMAIN out : out[i][1] = "log.pressed"})
                 /\ \A i \in Publishes(out) :
                       \E d \in DirectionNames : out[i] = PressPublish(a, d)

C20_Witness ==
    /\ ButtonUpdate("a1")
    /\ last.pre.pressed = {"north"}
    /\ last.value = <<252>>
    /\ out = << PressLog("a1", "east"), PressPublish("a1", "east") >>
    /\ <<"homeassistant/device_automation", "a1", "east", "config">> \in retained
====
